---- MODULE Spec2Model ----
(***************************************************************************)
(* State machine of the two wallet load-test scripts                       *)
(*   scripts/load_test_wallets.py  (balance-aware, sequential only)        *)
(*   scripts/quick_load_test.py    (fixed ranges, sequential or --fast)    *)
(* Money is counted in thousandths of a currency unit, so that the floats  *)
(* balance * 0.5, balance * 0.3 and round(x, 2) are exact integers.        *)
(***************************************************************************)
EXTENDS Integers, Sequences, FiniteSets, TLC

\* ------------- bounds: --wallets, --operations, --workers of a small run
NumWallets == 3
NumOps == 2
Workers == 2
\* --wallets of the runs whose verification alone is explored
MaxVerifyWallets == 6
\* --operations of the sequential runs against the balance-tracking mock
MockOps == 4

\* ------------------------------- program constants, in thousandths
MinAmount == 10000
LCreditMax == 1000000
DebitCap == 500000
TransferCap == 300000
QCreditMax == 500000
QDebitMax == 200000
QTransferMax == 300000
SampleSize == 5
\* the balance of every wallet of the mocked service (1000.00)
MockInitialBalance == 1000000

\* ------------------------------------------------------------ input sets
Scripts == {"load_test_wallets", "quick_load_test"}
WalletIds == {"w1", "w2"}
NoWallet == "none"
NoValue == 0 - 1
\* two of the random suffixes random.randint(100000, 999999) may draw
Suffixes == {0, 1}
\* balances the service may report (20.00, 33.42, 2000.00)
Balances == {20000, 33420, 2000000}
Kinds == {"wallets", "credit", "debit", "transfer"}
operations == {"credit", "debit", "transfer"}

VARIABLES
    script,           \* which script runs
    fast,             \* args.fast (quick_load_test only)
    num_ops,          \* NUM_OPERATIONS / args.operations
    mock,             \* the mocked service of a test scenario, if any
    rng,              \* the state of the module-level random generator, if seeded
    pc,               \* main(): create, settle1, ops, settle2, verify, done, aborted, crashed
    i,                \* loop index of main (sequential), next index to submit (parallel)
    tasks,            \* per-task state of the current phase
    stats,            \* the statistics dict
    created_wallets,  \* the population list
    exit_code,        \* process exit code, NoValue while running
    message,          \* what the top level printed when the run ended early, if it did
    sample,           \* population positions still to verify
    ledger_log,       \* per population position, the ledger queries sent and the errors printed
    keys_now,         \* suffixes of the keys generated in the current millisecond
    last,             \* the request sent by the step just taken, if any
    attempted,        \* per kind, the number of tasks started
    issued,           \* per kind, the number of mutating requests sent
    paced             \* a pacing delay has happened since the last task ended

vars == <<script, fast, num_ops, mock, rng, pc, i, tasks, stats, created_wallets, exit_code, message,
          sample, ledger_log, keys_now, last, attempted, issued, paced>>

\* ------------------------------------------------------------ pure helpers
Min(a, b) == IF a <= b THEN a ELSE b

Range(s) == {s[n] : n \in 1..Len(s)}

\* round(x, 2): to the nearest hundredth, ties to even
round2(x) ==
    LET q == x \div 10
        r == x % 10
    IN  IF r < 5 THEN 10 * q
        ELSE IF r > 5 THEN 10 * (q + 1)
        ELSE IF q % 2 = 0 THEN 10 * q ELSE 10 * (q + 1)

\* random.uniform(lo, hi) / random.randint(lo, hi): the draws explored
uniform(lo, hi) == {lo, hi}

randint(lo, hi) == {lo, hi}

\* the cap alone, whatever the balance
max_debit_cap_only(current_balance) == DebitCap

max_debit(current_balance) == Min((current_balance * 5) \div 10, DebitCap)

\* the debit fraction used for a transfer
max_transfer_debit_fraction(current_balance) ==
    Min((current_balance * 5) \div 10, TransferCap)

max_transfer(current_balance) == Min((current_balance * 3) \div 10, TransferCap)

\* the threshold itself let through
above_minimum_inclusive(ceiling) == ceiling >= MinAmount

\* `if max_debit > 10:` / `if max_transfer > 10:`
above_minimum(ceiling) == ceiling > MinAmount

Ceiling(kind, balance) ==
    IF kind = "debit" THEN max_debit(balance) ELSE max_transfer(balance)

\* the source wallet left among the destinations
other_wallets_unfiltered(from_wallet) == Range(created_wallets)

\* [w for w in wallet_ids if w != from_wallet]
other_wallets(from_wallet) == {w \in Range(created_wallets) : w # from_wallet}

\* `if len(created_wallets) < 2:`
not_enough_wallets == Len(created_wallets) < 2

\* the empty-population check dropped
no_wallets_created_unchecked == FALSE

\* `if stats["wallets_created"] == 0:` / `if not created_wallets:`
no_wallets_created == Len(created_wallets) = 0

\* ThreadPoolExecutor(max_workers=args.workers): a worker thread is free
Running == {n \in DOMAIN tasks : tasks[n].st = "running"}

\* a pool that starts a thread for every submitted task
worker_free_unbounded == TRUE

worker_free == Cardinality(Running) < Workers

\* ------------------------------------------------------------ records
Pending ==
    [st |-> "pending", kind |-> "none", wallet |-> NoWallet, to |-> NoWallet,
     read |-> FALSE, ceiling |-> NoValue, sent |-> FALSE, res |-> "none",
     id |-> NoWallet, cap |-> "none", succ |-> 0, fail |-> 0]

\* a task of an earlier iteration, its details dropped
Over == [Pending EXCEPT !.st = "over"]

NoRequest ==
    [op |-> "none", wallet |-> NoWallet, to |-> NoWallet, amount |-> NoValue,
     balance |-> NoValue, dupkey |-> FALSE]

ZeroStats == [k \in Kinds |-> [success |-> 0, failed |-> 0]]

Inc(k, outcome) == [stats EXCEPT ![k][outcome] = @ + 1]

\* --------------------------------------- the mocked service of a scenario
\* no mock: the service answers as it likes
NoMock == [on |-> FALSE, balance |-> [w \in {} |-> 0], rejects |-> {}]

\* a mock that holds the wallets it created with their balances, has an id
\* for |WalletIds| wallets and rejects the kinds of `rejects`
Mock(rejects) == [on |-> TRUE, balance |-> [w \in {} |-> 0], rejects |-> rejects]

\* what the service may answer to a create: 2xx with an id, 2xx with a body
\* that has no id, or an error / timeout; the mock answers with an unused
\* id, or with an error when it has none left
CreateResponses ==
    [ok : {TRUE}, id : WalletIds \cup {NoWallet}] \cup [ok : {FALSE}, id : {NoWallet}]

create_answers ==
    IF ~mock.on THEN CreateResponses
    ELSE IF WalletIds \ DOMAIN mock.balance = {} THEN [ok : {FALSE}, id : {NoWallet}]
    ELSE [ok : {TRUE}, id : WalletIds \ DOMAIN mock.balance]

mock_created(r) ==
    IF mock.on /\ r.ok
    THEN [mock EXCEPT !.balance = [w \in DOMAIN mock.balance \cup {r.id} |->
                                      IF w = r.id THEN MockInitialBalance
                                      ELSE mock.balance[w]]]
    ELSE mock

\* the mock accepts every request of a kind it does not reject, whatever
\* the balance, and applies it
op_answers(kind) == IF mock.on THEN {kind \notin mock.rejects} ELSE BOOLEAN

mock_applied(op, wallet, to, amount) ==
    IF ~mock.on \/ op \in mock.rejects THEN mock
    ELSE [mock EXCEPT !.balance = [w \in DOMAIN mock.balance |->
            mock.balance[w]
            + (IF (op = "credit" /\ w = wallet) \/ (op = "transfer" /\ w = to)
               THEN amount ELSE 0)
            - (IF op \in {"debit", "transfer"} /\ w = wallet THEN amount ELSE 0)]]

\* get_wallet(...)["balance"]: what the mock tracks, or any balance
balance_answers(wallet) == IF mock.on THEN {mock.balance[wallet]} ELSE Balances

\* ------------------------------------------- the module-level random state
NoSeed == [seeded |-> FALSE, x |-> 0, start |-> 0]

\* a seeded generator is a deterministic stream: each call of random.choice
\* or random.randint, from whatever thread, takes the next element
lcg(x) == (5 * x + 3) % 16

RECURSIVE draws(_, _)
draws(x, k) == IF k = 0 THEN x ELSE draws(lcg(x), k - 1)

drawn(k) == IF rng.seeded THEN [rng EXCEPT !.x = draws(rng.x, k)] ELSE rng

\* the element of ["credit", "debit", "transfer"] that a draw selects
operation_drawn(x) ==
    IF x % 3 = 0 THEN "credit" ELSE IF x % 3 = 1 THEN "debit" ELSE "transfer"

\* random.choice(operations)
random_choice_operations ==
    IF ~rng.seeded THEN operations ELSE {operation_drawn(lcg(rng.x))}

Init ==
    /\ script \in Scripts
    /\ fast \in (IF script = "quick_load_test" THEN BOOLEAN ELSE {FALSE})
    /\ num_ops = NumOps
    /\ mock = NoMock
    /\ rng = NoSeed
    /\ pc = "create"
    /\ i = 1
    /\ tasks = [n \in 1..NumWallets |-> Pending]
    /\ stats = ZeroStats
    /\ created_wallets = <<>>
    /\ exit_code = NoValue
    /\ message = "none"
    /\ sample = {}
    /\ ledger_log = <<>>
    /\ keys_now = {}
    /\ last = NoRequest
    /\ attempted = [k \in Kinds |-> 0]
    /\ issued = [k \in Kinds |-> 0]
    /\ paced = TRUE

\* ------------------------------------------------------------ shared steps
Sequential == ~fast

\* the loop of a sequential run has moved on: earlier tasks keep no details
Started(n, rec) ==
    [m \in DOMAIN tasks |->
        IF m = n THEN rec
        ELSE IF Sequential /\ tasks[m].st # "pending" THEN Over
        ELSE tasks[m]]

\* create_wallet(): the POST /wallets request is sent with a fresh
\* Idempotency-Key f"idem-{ms}-{suffix}"
create_wallet_call(n) ==
    \E s \in Suffixes :
        /\ keys_now' = keys_now \cup {s}
        /\ last' = [NoRequest EXCEPT !.op = "create", !.dupkey = (s \in keys_now)]
        /\ issued' = [issued EXCEPT !["wallets"] = @ + 1]
        /\ tasks' = Started(n, [Pending EXCEPT !.st = "running",
                                               !.kind = "wallets", !.sent = TRUE])
        /\ attempted' = [attempted EXCEPT !["wallets"] = @ + 1]
        /\ rng' = drawn(4)
        /\ mock' = mock

\* time.sleep(SLEEP_BETWEEN_OPS) / time.sleep(0.05)
Pace ==
    /\ Sequential
    /\ pc \in {"create", "ops"}
    /\ i \in DOMAIN tasks
    /\ tasks[i].st = "sleeping"
    /\ tasks' = [tasks EXCEPT ![i] = Over]
    /\ i' = i + 1
    /\ paced' = TRUE
    /\ keys_now' = {}
    /\ issued' = issued
    /\ mock' = mock
    /\ UNCHANGED <<script, fast, num_ops, pc, stats, created_wallets, exit_code, message, sample, ledger_log,
                   attempted, rng>>
    /\ last' = NoRequest

\* the millisecond clock advances between two calls of time.time()
Tick ==
    /\ keys_now # {}
    /\ pc \notin {"done", "aborted"}
    /\ keys_now' = {}
    /\ issued' = issued
    /\ mock' = mock
    /\ UNCHANGED <<script, fast, num_ops, pc, i, tasks, stats, created_wallets, exit_code, message,
                   sample, ledger_log, attempted, rng, paced>>
    /\ last' = NoRequest

\* ------------------------------------------- load_test_wallets.py: build
LCreateCall ==
    /\ script = "load_test_wallets"
    /\ pc = "create"
    /\ i <= NumWallets
    /\ tasks[i].st = "pending"
    /\ create_wallet_call(i)
    /\ UNCHANGED <<script, fast, num_ops, pc, i, stats, created_wallets, exit_code, message, sample, ledger_log,
                   paced>>

\* the try block of the creation loop: append and count, or count the failure
LCreateReturn ==
    /\ script = "load_test_wallets"
    /\ pc = "create"
    /\ i <= NumWallets
    /\ tasks[i].st = "running"
    /\ \E r \in create_answers :
        /\ mock' = mock_created(r)
        /\ IF r.ok /\ r.id # NoWallet
           THEN /\ created_wallets' = Append(created_wallets, r.id)
                /\ stats' = Inc("wallets", "success")
                /\ tasks' = [tasks EXCEPT ![i].st = "sleeping", ![i].res = "ok",
                                          ![i].succ = @ + 1]
                /\ i' = i
           ELSE /\ created_wallets' = created_wallets
                /\ stats' = Inc("wallets", "failed")
                /\ tasks' = [tasks EXCEPT ![i].st = "finished", ![i].res = "fail",
                                          ![i].fail = @ + 1]
                /\ i' = i + 1
    /\ paced' = FALSE
    /\ UNCHANGED <<script, fast, num_ops, pc, exit_code, message, sample, ledger_log, keys_now, issued, attempted, rng>>
    /\ last' = NoRequest

\* ------------------------------------------------- the `__main__` blocks
\* what ends a run early: Ctrl-C, or an exception that leaves main()
Causes == {"KeyboardInterrupt", "Exception"}

\* the status of an interpreter that dies of SIGINT, as a shell reports it
SigintStatus == 130

\* load_test_wallets.py wraps main() in try / except KeyboardInterrupt /
\* except Exception: each prints its own message and calls sys.exit(1).
\* quick_load_test.py calls main() bare: the interpreter prints the traceback
\* of the exception and exits 1; on KeyboardInterrupt an interpreter of
\* version 3.8 or later kills itself with SIGINT instead
top_level(cause) ==
    IF script = "load_test_wallets"
    THEN IF cause = "KeyboardInterrupt"
         THEN {[message |-> "Test interrupted by user", exit_code |-> 1]}
         ELSE {[message |-> "Unexpected error", exit_code |-> 1]}
    ELSE IF cause = "KeyboardInterrupt"
         THEN {[message |-> "Traceback: KeyboardInterrupt", exit_code |-> c] :
                    c \in {1, SigintStatus}}
         ELSE {[message |-> "Traceback: Exception", exit_code |-> 1]}

\* main() is left by an exception and the process exits
ends_by(cause) ==
    /\ pc' = (IF cause = "KeyboardInterrupt" THEN "interrupted" ELSE "crashed")
    /\ \E e \in top_level(cause) :
        /\ message' = e.message
        /\ exit_code' = e.exit_code

\* -------------------------------------- quick_load_test.py: error capture
\* the capture file may be written or not: makedirs, open or write may raise
CapOutcomes == BOOLEAN

\* a write_cap without its try / except
write_cap_propagates(cap_ok) == ~cap_ok

\* write_cap(): `except Exception: pass` around cap_path(), open and write
write_cap_raises(cap_ok) == FALSE

write_cap(cap_ok) == IF cap_ok THEN "written" ELSE "lost"

\* a result collected from its future keeps no trace of its capture
Kept(after, cap) == IF after = "collected" THEN "none" ELSE cap

\* the except branch of create_wallet / perform_operation: the error record
\* is handed to write_cap, then the failure result is returned
failure_result(rec, cap_ok) ==
    [rec EXCEPT !.st = "done", !.cap = write_cap(cap_ok),
                !.res = IF write_cap_raises(cap_ok) THEN "raised" ELSE "fail"]

\* ---------------------------------------------- quick_load_test.py: build
\* create_wallet() returns {"success": True, "data": response.json()} or
\* {"success": False, ...}
create_wallet_return(rec, r, cap_ok) ==
    IF r.ok THEN [rec EXCEPT !.st = "done", !.res = "ok", !.id = r.id]
    ELSE failure_result(rec, cap_ok)

\* a failed create whose wallet is put in the population all the same
tally_wallet_appends_failed(n, rec, after) ==
    /\ created_wallets' = Append(created_wallets, rec.id)
    /\ stats' = Inc("wallets", IF rec.res = "ok" THEN "success" ELSE "failed")
    /\ tasks' = [tasks EXCEPT ![n] = [rec EXCEPT !.st = after, !.id = NoWallet]]
    /\ UNCHANGED <<pc, exit_code, message>>

\* main's handling of one create result; result["data"]["id"] raises KeyError
\* when the body has no id, and nothing catches it, nor an exception raised
\* by create_wallet itself
tally_wallet(n, rec, after) ==
    IF rec.res = "raised"
    THEN /\ ends_by("Exception")
         /\ tasks' = [tasks EXCEPT ![n] = rec]
         /\ UNCHANGED <<created_wallets, stats>>
    ELSE IF rec.res = "ok"
    THEN IF rec.id = NoWallet
         THEN /\ ends_by("Exception")
              /\ tasks' = [tasks EXCEPT ![n] = rec]
              /\ UNCHANGED <<created_wallets, stats>>
         ELSE /\ created_wallets' = Append(created_wallets, rec.id)
              /\ stats' = Inc("wallets", "success")
              /\ tasks' = [tasks EXCEPT ![n] = [rec EXCEPT !.st = after, !.succ = @ + 1,
                                                           !.id = NoWallet]]
              /\ UNCHANGED <<pc, exit_code, message>>
    ELSE /\ stats' = Inc("wallets", "failed")
         /\ tasks' = [tasks EXCEPT ![n] = [rec EXCEPT !.st = after, !.fail = @ + 1,
                                                      !.cap = Kept(after, @)]]
         /\ UNCHANGED <<pc, exit_code, message, created_wallets>>

QCreateCall ==
    /\ script = "quick_load_test"
    /\ Sequential
    /\ pc = "create"
    /\ i <= NumWallets
    /\ tasks[i].st = "pending"
    /\ create_wallet_call(i)
    /\ UNCHANGED <<script, fast, num_ops, pc, i, stats, created_wallets, exit_code, message, sample, ledger_log,
                   paced>>

QCreateReturn ==
    /\ script = "quick_load_test"
    /\ Sequential
    /\ pc = "create"
    /\ i <= NumWallets
    /\ tasks[i].st = "running"
    /\ \E r \in create_answers :
        \E cap_ok \in CapOutcomes :
            /\ mock' = mock_created(r)
            /\ tally_wallet(i, create_wallet_return(tasks[i], r, cap_ok), "sleeping")
    /\ paced' = FALSE
    /\ UNCHANGED <<script, fast, num_ops, i, sample, ledger_log, keys_now, issued, attempted, rng>>
    /\ last' = NoRequest

\* futures = [executor.submit(create_wallet, i) for i in range(args.wallets)]
SubmitCreate ==
    /\ fast
    /\ pc = "create"
    /\ i <= NumWallets
    /\ tasks' = [tasks EXCEPT ![i].st = "queued", ![i].kind = "wallets"]
    /\ i' = i + 1
    /\ UNCHANGED <<script, fast, num_ops, pc, stats, created_wallets, exit_code, message, sample, ledger_log,
                   keys_now, issued, mock, attempted, rng, paced>>
    /\ last' = NoRequest

\* the pool's work queue is first in, first out
NextQueued(n) ==
    /\ tasks[n].st = "queued"
    /\ \A m \in DOMAIN tasks : m < n => tasks[m].st # "queued"

WorkerCreateCall(n) ==
    /\ fast
    /\ NextQueued(n)
    /\ tasks[n].kind = "wallets"
    /\ worker_free
    /\ create_wallet_call(n)
    /\ UNCHANGED <<script, fast, num_ops, pc, i, stats, created_wallets, exit_code, message, sample, ledger_log,
                   paced>>

WorkerCreateReturn(n) ==
    /\ fast
    /\ tasks[n].st = "running"
    /\ tasks[n].kind = "wallets"
    /\ \E r \in create_answers :
        \E cap_ok \in CapOutcomes :
            /\ mock' = mock_created(r)
            /\ tasks' = [tasks EXCEPT ![n] = create_wallet_return(tasks[n], r, cap_ok)]
    /\ UNCHANGED <<script, fast, num_ops, pc, i, stats, created_wallets, exit_code, message, sample, ledger_log,
                   keys_now, issued, attempted, rng, paced>>
    /\ last' = NoRequest

\* for i, future in enumerate(as_completed(futures), 1): one result is tallied
CollectCreate(n) ==
    /\ fast
    /\ pc = "create"
    /\ i > NumWallets
    /\ tasks[n].st = "done"
    /\ tally_wallet(n, tasks[n], "collected")
    /\ UNCHANGED <<script, fast, num_ops, i, sample, ledger_log, keys_now, issued, mock, attempted, rng, paced>>
    /\ last' = NoRequest

\* ------------------------------------------------------- end of the build
\* a phase that ends as soon as its tasks are submitted
AllTallied_unchecked == TRUE

\* the sequential loop is exhausted / the `with ThreadPoolExecutor` block is
\* left after as_completed has yielded every future
AllTallied ==
    \A n \in DOMAIN tasks : tasks[n].st \in {"finished", "collected", "over"}

\* sys.exit(1) in load_test_wallets.py, a plain return in quick_load_test.py
abort_exit_code == IF script = "load_test_wallets" THEN 1 ELSE 0

BuildEnd ==
    /\ pc = "create"
    /\ i > NumWallets
    /\ AllTallied
    /\ IF no_wallets_created
       THEN /\ pc' = "aborted"
            /\ exit_code' = abort_exit_code
            /\ message' = message
       ELSE /\ pc' = "settle1"
            /\ exit_code' = exit_code
            /\ message' = message
    /\ UNCHANGED <<script, fast, num_ops, i, tasks, stats, created_wallets, sample, ledger_log, keys_now, issued, mock,
                   attempted, rng, paced>>
    /\ last' = NoRequest

\* time.sleep(10) / time.sleep(5) before the operations
Settle1 ==
    /\ pc = "settle1"
    /\ pc' = "ops"
    /\ tasks' = [n \in 1..num_ops |-> Pending]
    /\ i' = 1
    /\ paced' = TRUE
    /\ keys_now' = {}
    /\ issued' = issued
    /\ mock' = mock
    /\ rng' = [rng EXCEPT !.start = rng.x]
    /\ UNCHANGED <<script, fast, num_ops, stats, created_wallets, exit_code, message, sample,
                   ledger_log, attempted>>
    /\ last' = NoRequest

\* ------------------------------------------------ requests of the op phase
\* a credit/debit/transfer POST is sent with a fresh Idempotency-Key
mutating_request(op, wallet, to, amount, balance) ==
    \E s \in Suffixes :
        /\ keys_now' = keys_now \cup {s}
        /\ last' = [op |-> op, wallet |-> wallet, to |-> to, amount |-> amount,
                    balance |-> balance, dupkey |-> (s \in keys_now)]
        /\ issued' = [issued EXCEPT ![op] = @ + 1]
        /\ mock' = mock_applied(op, wallet, to, amount)

\* GET /wallets/{id} or GET /ledger/wallet/{id}: no Idempotency-Key
read_request(op, wallet) ==
    /\ last' = [NoRequest EXCEPT !.op = op, !.wallet = wallet]
    /\ keys_now' = keys_now
    /\ issued' = issued
    /\ mock' = mock

\* -------------------------------------------- quick_load_test.py: operations
\* the credit range used for every kind
QMax_credit_range(op_type) == QCreditMax

QMax(op_type) ==
    IF op_type = "credit" THEN QCreditMax
    ELSE IF op_type = "debit" THEN QDebitMax
    ELSE QTransferMax

\* perform_operation() up to the request; a transfer with fewer than two
\* wallets returns a failure at once, and random.choice of an empty list of
\* destinations raises into the except branch, which returns a failure too.
\* `before` random draws were made by the caller in the same step; the
\* function draws the wallet(s), the amount and the suffix of the key
perform_call(n, op_type, before) ==
    /\ attempted' = [attempted EXCEPT ![op_type] = @ + 1]
    /\ IF op_type = "transfer" /\ not_enough_wallets
       THEN /\ tasks' = Started(n, [Pending EXCEPT !.st = "done", !.kind = op_type,
                                                   !.res = "fail"])
            /\ rng' = drawn(before)
            /\ UNCHANGED <<keys_now, issued, mock>>
            /\ last' = NoRequest
       ELSE \E w \in Range(created_wallets) :
            IF op_type = "transfer" /\ other_wallets(w) = {}
            THEN /\ \E cap_ok \in CapOutcomes :
                        tasks' = Started(n, failure_result([Pending EXCEPT !.kind = op_type],
                                                           cap_ok))
                 /\ rng' = drawn(before + 1)
                 /\ UNCHANGED <<keys_now, issued, mock>>
                 /\ last' = NoRequest
            ELSE \E to \in (IF op_type = "transfer" THEN other_wallets(w) ELSE {NoWallet}) :
                 \E amount \in randint(MinAmount, QMax(op_type)) :
                    /\ mutating_request(op_type, w, to, amount, NoValue)
                    /\ rng' = drawn(before + (IF op_type = "transfer" THEN 4 ELSE 3))
                    /\ tasks' = Started(n, [Pending EXCEPT !.st = "running",
                                             !.kind = op_type, !.sent = TRUE])

\* a failed request put back on the work queue
perform_return_retry(rec, ok, cap_ok) ==
    IF ok THEN [rec EXCEPT !.st = "done", !.res = "ok"] ELSE [rec EXCEPT !.st = "queued"]

\* the response of the service: raise_for_status passes, or raises into the
\* except branch
perform_return(rec, ok, cap_ok) ==
    IF ok THEN [rec EXCEPT !.st = "done", !.res = "ok"] ELSE failure_result(rec, cap_ok)

\* an increment that is lost: the result is consumed, the counter is not moved
tally_operation_lost_update(n, rec, after) ==
    /\ stats' = stats
    /\ tasks' = [tasks EXCEPT ![n] = [rec EXCEPT !.st = after]]
    /\ UNCHANGED <<pc, exit_code, message>>

\* stats[result["type"]]["success" or "failed"] += 1; an exception raised by
\* perform_operation itself is not caught
tally_operation(n, rec, after) ==
    IF rec.res = "raised"
    THEN /\ ends_by("Exception")
         /\ tasks' = [tasks EXCEPT ![n] = rec]
         /\ UNCHANGED <<stats>>
    ELSE IF rec.res = "ok"
    THEN /\ stats' = Inc(rec.kind, "success")
         /\ tasks' = [tasks EXCEPT ![n] = [rec EXCEPT !.st = after, !.succ = @ + 1]]
         /\ UNCHANGED <<pc, exit_code, message>>
    ELSE /\ stats' = Inc(rec.kind, "failed")
         /\ tasks' = [tasks EXCEPT ![n] = [rec EXCEPT !.st = after, !.fail = @ + 1,
                                                      !.cap = Kept(after, @)]]
         /\ UNCHANGED <<pc, exit_code, message>>

QOpCall ==
    /\ script = "quick_load_test"
    /\ Sequential
    /\ pc = "ops"
    /\ i <= num_ops
    /\ tasks[i].st = "pending"
    /\ \E op_type \in random_choice_operations : perform_call(i, op_type, 1)
    /\ UNCHANGED <<script, fast, num_ops, pc, i, stats, created_wallets, exit_code, message, sample, ledger_log,
                   paced>>

QOpReturn ==
    /\ script = "quick_load_test"
    /\ Sequential
    /\ pc = "ops"
    /\ i <= num_ops
    /\ \/ /\ tasks[i].st = "running"
          /\ \E ok \in op_answers(tasks[i].kind) :
                \E cap_ok \in CapOutcomes :
                    tally_operation(i, perform_return(tasks[i], ok, cap_ok), "sleeping")
       \/ /\ tasks[i].st = "done"
          /\ tally_operation(i, tasks[i], "sleeping")
    /\ paced' = FALSE
    /\ UNCHANGED <<script, fast, num_ops, i, created_wallets, sample, ledger_log, keys_now,
                   issued, mock, attempted, rng>>
    /\ last' = NoRequest

\* executor.submit(perform_operation, random.choice(operations), created_wallets)
SubmitOp ==
    /\ fast
    /\ pc = "ops"
    /\ i <= num_ops
    /\ \E op_type \in random_choice_operations :
        tasks' = [tasks EXCEPT ![i].st = "queued", ![i].kind = op_type]
    /\ rng' = drawn(1)
    /\ i' = i + 1
    /\ UNCHANGED <<script, fast, num_ops, pc, stats, created_wallets, exit_code, message, sample,
                   ledger_log, keys_now, issued, mock, attempted, paced>>
    /\ last' = NoRequest

WorkerOpCall(n) ==
    /\ fast
    /\ NextQueued(n)
    /\ tasks[n].kind \in operations
    /\ worker_free
    /\ perform_call(n, tasks[n].kind, 0)
    /\ UNCHANGED <<script, fast, num_ops, pc, i, stats, created_wallets, exit_code, message, sample, ledger_log,
                   paced>>

WorkerOpReturn(n) ==
    /\ fast
    /\ tasks[n].st = "running"
    /\ tasks[n].kind \in operations
    /\ \E ok \in op_answers(tasks[n].kind) :
        \E cap_ok \in CapOutcomes :
            tasks' = [tasks EXCEPT ![n] = perform_return(tasks[n], ok, cap_ok)]
    /\ UNCHANGED <<script, fast, num_ops, pc, i, stats, created_wallets, exit_code, message, sample, ledger_log,
                   keys_now, issued, mock, attempted, rng, paced>>
    /\ last' = NoRequest

CollectOp(n) ==
    /\ fast
    /\ pc = "ops"
    /\ i > num_ops
    /\ tasks[n].st = "done"
    /\ tally_operation(n, tasks[n], "collected")
    /\ UNCHANGED <<script, fast, num_ops, i, created_wallets, sample, ledger_log, keys_now,
                   issued, mock, attempted, rng, paced>>
    /\ last' = NoRequest

\* ------------------------------------------ load_test_wallets.py: operations
\* a failure that is counted twice
LFailed_counted_twice(rec) ==
    /\ stats' = [stats EXCEPT ![rec.kind]["failed"] = @ + 2]
    /\ tasks' = Started(i, [rec EXCEPT !.st = "finished", !.res = "fail", !.fail = @ + 1])
    /\ i' = i + 1
    /\ paced' = FALSE

\* the except branch of the operations loop: the failure is counted for the
\* selected kind and the loop goes on without sleeping
LFailed(rec) ==
    /\ stats' = Inc(rec.kind, "failed")
    /\ tasks' = Started(i, [rec EXCEPT !.st = "finished", !.res = "fail", !.fail = @ + 1])
    /\ i' = i + 1
    /\ paced' = FALSE

\* operation = random.choice([...]) and the statements up to the first request
LOpSelect ==
    /\ script = "load_test_wallets"
    /\ pc = "ops"
    /\ i <= num_ops
    /\ tasks[i].st = "pending"
    /\ \E operation \in operations :
        LET rec == [Pending EXCEPT !.kind = operation] IN
        /\ attempted' = [attempted EXCEPT ![operation] = @ + 1]
        /\ IF operation = "credit"
           THEN \E w \in Range(created_wallets) :
                \E x \in uniform(MinAmount, LCreditMax) :
                    /\ mutating_request("credit", w, NoWallet, round2(x), NoValue)
                    /\ tasks' = Started(i, [rec EXCEPT !.st = "running", !.sent = TRUE])
                    /\ UNCHANGED <<stats, i, paced>>
           ELSE IF operation = "transfer" /\ not_enough_wallets
           THEN /\ LFailed(rec)
                /\ UNCHANGED <<keys_now, issued, mock>>
                /\ last' = NoRequest
           ELSE \E w \in Range(created_wallets) :
                IF operation = "transfer" /\ other_wallets(w) = {}
                THEN /\ LFailed(rec)
                     /\ UNCHANGED <<keys_now, issued, mock>>
                     /\ last' = NoRequest
                ELSE \E to \in (IF operation = "transfer" THEN other_wallets(w)
                                ELSE {NoWallet}) :
                    /\ read_request("get_wallet", w)
                    /\ tasks' = Started(i, [rec EXCEPT !.st = "reading", !.wallet = w,
                                                       !.to = to, !.read = TRUE])
                    /\ UNCHANGED <<stats, i, paced>>
    /\ UNCHANGED <<script, fast, num_ops, rng, pc, created_wallets, exit_code, message, sample,
                   ledger_log>>

\* get_wallet() returns or raises; then the ceiling, the skip or the request
LReadReturn ==
    /\ script = "load_test_wallets"
    /\ pc = "ops"
    /\ i <= num_ops
    /\ tasks[i].st = "reading"
    /\ \/ /\ ~mock.on
          /\ LFailed(tasks[i])
          /\ UNCHANGED <<keys_now, issued, mock>>
          /\ last' = NoRequest
       \/ \E current_balance \in balance_answers(tasks[i].wallet) :
            LET ceiling == Ceiling(tasks[i].kind, current_balance) IN
            IF above_minimum(ceiling)
            THEN \E x \in uniform(MinAmount, ceiling) :
                    /\ mutating_request(tasks[i].kind, tasks[i].wallet, tasks[i].to,
                                        round2(x), current_balance)
                    /\ tasks' = [tasks EXCEPT ![i].st = "running", ![i].sent = TRUE,
                                              ![i].ceiling = ceiling,
                                              ![i].wallet = NoWallet, ![i].to = NoWallet]
                    /\ UNCHANGED <<stats, i, paced>>
            ELSE /\ stats' = Inc(tasks[i].kind, "failed")
                 /\ tasks' = [tasks EXCEPT ![i].st = "sleeping", ![i].res = "fail",
                                           ![i].ceiling = ceiling, ![i].fail = @ + 1,
                                           ![i].wallet = NoWallet, ![i].to = NoWallet]
                 /\ paced' = FALSE
                 /\ UNCHANGED <<i, keys_now, issued, mock>>
                 /\ last' = NoRequest
    /\ UNCHANGED <<script, fast, num_ops, pc, created_wallets, exit_code, message, sample, ledger_log, attempted, rng>>

\* credit_wallet / debit_wallet / transfer_wallet returns or raises
LOpReturn ==
    /\ script = "load_test_wallets"
    /\ pc = "ops"
    /\ i <= num_ops
    /\ tasks[i].st = "running"
    /\ \/ /\ TRUE \in op_answers(tasks[i].kind)
          /\ stats' = Inc(tasks[i].kind, "success")
          /\ tasks' = [tasks EXCEPT ![i].st = "sleeping", ![i].res = "ok",
                                    ![i].succ = @ + 1]
          /\ paced' = FALSE
          /\ i' = i
       \/ /\ FALSE \in op_answers(tasks[i].kind)
          /\ LFailed(tasks[i])
    /\ UNCHANGED <<script, fast, num_ops, pc, created_wallets, exit_code, message, sample, ledger_log, keys_now, issued, mock,
                   attempted, rng>>
    /\ last' = NoRequest

\* ------------------------------------------------- end of the operations
OpsEnd ==
    /\ pc = "ops"
    /\ i > num_ops
    /\ AllTallied
    /\ pc' = "settle2"
    /\ UNCHANGED <<script, fast, num_ops, i, tasks, stats, created_wallets, exit_code, message, sample, ledger_log,
                   keys_now, issued, mock, attempted, rng, paced>>
    /\ last' = NoRequest

\* a sample of the whole population, whatever its size
sample_size_unbounded == Len(created_wallets)

\* min(5, len(created_wallets))
sample_size == Min(SampleSize, Len(created_wallets))

\* time.sleep(10) / time.sleep(5), then
\* random.sample(created_wallets, min(5, len(created_wallets))); the
\* verification has no tasks
Settle2 ==
    /\ pc = "settle2"
    /\ pc' = "verify"
    /\ sample' \in {S \in SUBSET (1..Len(created_wallets)) : Cardinality(S) = sample_size}
    /\ ledger_log' = [p \in 1..Len(created_wallets) |-> [queries |-> 0, errors |-> 0]]
    /\ tasks' = <<>>
    /\ paced' = TRUE
    /\ keys_now' = {}
    /\ issued' = issued
    /\ mock' = mock
    /\ UNCHANGED <<script, fast, num_ops, i, stats, created_wallets, exit_code, message, attempted, rng>>
    /\ last' = NoRequest

\* a loop that stops at the first failed query
rest_of_sample_until_error(p, ok) == IF ok THEN sample \ {p} ELSE {}

\* `for wallet in sample_wallets:` goes on to the next wallet after the try
\* statement, whether the query returned or raised
rest_of_sample(p, ok) == sample \ {p}

\* one ledger query: its entry count is printed, or its failure is printed by
\* the except branch, and the loop goes on
VerifyOne ==
    /\ pc = "verify"
    /\ \E p \in sample :
        \E ok \in BOOLEAN :
            /\ read_request("get_ledger", created_wallets[p])
            /\ ledger_log' = [ledger_log EXCEPT ![p].queries = @ + 1,
                                                ![p].errors = IF ok THEN @ ELSE @ + 1]
            /\ sample' = rest_of_sample(p, ok)
    /\ UNCHANGED <<script, fast, num_ops, pc, i, tasks, stats, created_wallets, exit_code, message,
                   attempted, rng, paced>>

\* the final statistics are printed and main returns
Finish ==
    /\ pc = "verify"
    /\ sample = {}
    /\ pc' = "done"
    /\ exit_code' = 0
    /\ message' = message
    /\ UNCHANGED <<script, fast, num_ops, i, tasks, stats, created_wallets, sample, ledger_log, keys_now, issued, mock,
                   attempted, rng, paced>>
    /\ last' = NoRequest

\* Ctrl-C while the script runs: KeyboardInterrupt is no Exception, so no
\* except clause of main or of the request functions catches it
Interrupt ==
    /\ pc \in {"create", "settle1", "ops", "settle2", "verify"}
    /\ ends_by("KeyboardInterrupt")
    /\ UNCHANGED <<script, fast, num_ops, i, tasks, stats, created_wallets, sample, ledger_log,
                   keys_now, issued, mock, attempted, rng, paced>>
    /\ last' = NoRequest

\* an exception raised outside the try statements of main, such as print()
\* failing on a closed or non-UTF-8 standard output
Fault ==
    /\ pc \in {"create", "settle1", "ops", "settle2", "verify"}
    /\ ends_by("Exception")
    /\ UNCHANGED <<script, fast, num_ops, i, tasks, stats, created_wallets, sample, ledger_log,
                   keys_now, issued, mock, attempted, rng, paced>>
    /\ last' = NoRequest

Next ==
    \/ Pace
    \/ Tick
    \/ LCreateCall
    \/ LCreateReturn
    \/ QCreateCall
    \/ QCreateReturn
    \/ SubmitCreate
    \/ \E n \in DOMAIN tasks : WorkerCreateCall(n)
    \/ \E n \in DOMAIN tasks : WorkerCreateReturn(n)
    \/ \E n \in DOMAIN tasks : CollectCreate(n)
    \/ BuildEnd
    \/ Settle1
    \/ QOpCall
    \/ QOpReturn
    \/ SubmitOp
    \/ \E n \in DOMAIN tasks : WorkerOpCall(n)
    \/ \E n \in DOMAIN tasks : WorkerOpReturn(n)
    \/ \E n \in DOMAIN tasks : CollectOp(n)
    \/ LOpSelect
    \/ LReadReturn
    \/ LOpReturn
    \/ OpsEnd
    \/ Settle2
    \/ VerifyOne
    \/ Finish

Spec == Init /\ [][Next]_vars

\* ---------------- sequential runs of MockOps operations against the mock
InitMock ==
    /\ script \in Scripts
    /\ fast = FALSE
    /\ num_ops = MockOps
    /\ mock = Mock({})
    /\ rng = NoSeed
    /\ pc = "create"
    /\ i = 1
    /\ tasks = [n \in 1..NumWallets |-> Pending]
    /\ stats = ZeroStats
    /\ created_wallets = <<>>
    /\ exit_code = NoValue
    /\ message = "none"
    /\ sample = {}
    /\ ledger_log = <<>>
    /\ keys_now = {}
    /\ last = NoRequest
    /\ attempted = [k \in Kinds |-> 0]
    /\ issued = [k \in Kinds |-> 0]
    /\ paced = TRUE

NextMock ==
    \/ Pace
    \/ Tick
    \/ LCreateCall
    \/ LCreateReturn
    \/ QCreateCall
    \/ QCreateReturn
    \/ BuildEnd
    \/ Settle1
    \/ QOpCall
    \/ QOpReturn
    \/ LOpSelect
    \/ LReadReturn
    \/ LOpReturn
    \/ OpsEnd
    \/ Settle2
    \/ VerifyOne
    \/ Finish

SpecMock == InitMock /\ [][NextMock]_vars

\* --- runs of quick_load_test.py after random.seed(s), sequential and --fast,
\* against a mock that rejects every debit
Seeds == 0..15

InitSeeded ==
    /\ script = "quick_load_test"
    /\ fast \in BOOLEAN
    /\ num_ops = NumOps
    /\ mock = Mock({"debit"})
    /\ \E s \in Seeds : rng = [seeded |-> TRUE, x |-> s, start |-> s]
    /\ pc = "create"
    /\ i = 1
    /\ tasks = [n \in 1..NumWallets |-> Pending]
    /\ stats = ZeroStats
    /\ created_wallets = <<>>
    /\ exit_code = NoValue
    /\ message = "none"
    /\ sample = {}
    /\ ledger_log = <<>>
    /\ keys_now = {}
    /\ last = NoRequest
    /\ attempted = [k \in Kinds |-> 0]
    /\ issued = [k \in Kinds |-> 0]
    /\ paced = TRUE

NextSeeded ==
    \/ Pace
    \/ Tick
    \/ QCreateCall
    \/ QCreateReturn
    \/ SubmitCreate
    \/ \E n \in DOMAIN tasks : WorkerCreateCall(n)
    \/ \E n \in DOMAIN tasks : WorkerCreateReturn(n)
    \/ \E n \in DOMAIN tasks : CollectCreate(n)
    \/ BuildEnd
    \/ Settle1
    \/ QOpCall
    \/ QOpReturn
    \/ SubmitOp
    \/ \E n \in DOMAIN tasks : WorkerOpCall(n)
    \/ \E n \in DOMAIN tasks : WorkerOpReturn(n)
    \/ \E n \in DOMAIN tasks : CollectOp(n)
    \/ OpsEnd
    \/ Settle2
    \/ VerifyOne
    \/ Finish

SpecSeeded == InitSeeded /\ [][NextSeeded]_vars

\* ------------------------- the verification of runs with larger populations
\* the end of the operations phase of a run in which every one of k wallets
\* was created and every operation was a successful credit
InitVerify ==
    \E k \in 1..MaxVerifyWallets :
        /\ script \in Scripts
        /\ fast \in (IF script = "quick_load_test" THEN BOOLEAN ELSE {FALSE})
        /\ num_ops = NumOps
        /\ mock = NoMock
        /\ rng = NoSeed
        /\ pc = "settle2"
        /\ i = NumOps + 1
        /\ tasks = [n \in 1..NumOps |-> IF fast THEN [Pending EXCEPT !.st = "collected",
                                                    !.kind = "credit", !.sent = TRUE,
                                                    !.res = "ok", !.succ = 1]
                                        ELSE Over]
        /\ stats = [ZeroStats EXCEPT !["wallets"].success = k, !["credit"].success = NumOps]
        /\ created_wallets = [p \in 1..k |-> IF p % 2 = 1 THEN "w1" ELSE "w2"]
        /\ exit_code = NoValue
        /\ message = "none"
        /\ sample = {}
        /\ ledger_log = <<>>
        /\ keys_now \in {{}, {0}}
        /\ last = NoRequest
        /\ attempted = [[kd \in Kinds |-> 0] EXCEPT !["wallets"] = k, !["credit"] = NumOps]
        /\ issued = [[kd \in Kinds |-> 0] EXCEPT !["wallets"] = k, !["credit"] = NumOps]
        /\ paced = TRUE

NextVerify ==
    \/ Settle2
    \/ VerifyOne
    \/ Finish

SpecVerify == InitVerify /\ [][NextVerify]_vars

\* ----------------------- runs that may be interrupted or hit a fault
NextEndings ==
    \/ Next
    \/ Interrupt
    \/ Fault

SpecEndings == Init /\ [][NextEndings]_vars

\* ================================================================= claims
RunEnded == pc \in {"done", "aborted", "crashed"}

Tallied(k) == stats[k].success + stats[k].failed

\* C1: at the end of a run, for every kind the success and failed counters
\* add up to the number of tasks of that kind that were attempted, no task
\* is tallied twice, and after the operations phase the operation counters
\* add up to the configured operation count.
C1_EveryTaskTalliedOnce ==
    RunEnded =>
        /\ \A k \in Kinds : Tallied(k) = attempted[k]
        /\ \A n \in DOMAIN tasks : tasks[n].succ + tasks[n].fail <= 1
        /\ pc = "done" =>
              Tallied("credit") + Tallied("debit") + Tallied("transfer") = NumOps

C3_SkipAtOrBelowMinimum ==
    \A n \in DOMAIN tasks :
        (tasks[n].ceiling # NoValue /\ tasks[n].ceiling <= 10000) =>
            /\ ~tasks[n].sent
            /\ last.op \notin {"debit", "transfer"}
            /\ tasks[n].fail = 1
            /\ tasks[n].succ = 0
            /\ stats[tasks[n].kind].failed >= 1

\* a debit skipped with the ceiling exactly at the threshold
C3_SkippedAtThreshold ==
    \E n \in DOMAIN tasks :
        /\ tasks[n].kind = "debit"
        /\ tasks[n].ceiling = 10000
        /\ tasks[n].st = "sleeping"

\* C4: a transfer request never names its source as destination, and a
\* transfer selected with fewer than two wallets sends neither a transfer
\* nor a balance read and adds exactly one to transfer.failed.
C4_TransferDistinctOrAbandoned ==
    /\ last.op = "transfer" => (last.to # last.wallet /\ last.to # NoWallet)
    /\ \A n \in DOMAIN tasks :
        (/\ tasks[n].kind = "transfer"
         /\ tasks[n].st \notin {"pending", "queued"}
         /\ Len(created_wallets) < 2) =>
            /\ ~tasks[n].sent
            /\ ~tasks[n].read
            /\ tasks[n].res = "fail"
            /\ tasks[n].succ = 0
            /\ tasks[n].fail = IF tasks[n].st = "done" THEN 0 ELSE 1

\* a transfer abandoned on a population of one wallet, and tallied
C4_TransferAbandoned ==
    \E n \in DOMAIN tasks :
        /\ tasks[n].kind = "transfer"
        /\ Len(created_wallets) = 1
        /\ tasks[n].fail = 1
        /\ stats["transfer"].failed >= 1

\* C5: a run whose build phase created no wallet aborts with a non-zero
\* exit code.
C5_EmptyPopulationExitsNonZero ==
    (Len(created_wallets) = 0 /\ pc \notin {"create", "crashed"}) =>
        (pc = "aborted" /\ exit_code > 0)

\* C6: the population is non-empty once the operations phase begins, and no
\* request other than a create is issued with an empty population.
C6_NoOperationOnEmptyPopulation ==
    (\/ pc \in {"settle1", "ops", "settle2", "verify", "done"}
     \/ last.op \notin {"none", "create"}) =>
        (Len(created_wallets) >= 1 /\ stats["wallets"].success >= 1)

\* every create failed and the run ended after the build phase
C6_AbortedOnEmptyPopulation ==
    /\ pc = "aborted"
    /\ Len(created_wallets) = 0
    /\ stats["wallets"].failed = NumWallets

\* C7: no per-item error propagates out of main: the run never ends by an
\* unhandled exception.
C7_NoErrorPropagates == pc # "crashed"

\* C8: in parallel mode the number of tasks whose request is in flight never
\* exceeds the worker count.
C8_InFlightAtMostWorkers ==
    fast => Cardinality({n \in DOMAIN tasks : tasks[n].st = "running"}) <= Workers

\* every worker busy while a task waits in the queue
C8_PoolSaturated ==
    /\ fast
    /\ Cardinality({n \in DOMAIN tasks : tasks[n].st = "running"}) = Workers
    /\ \E n \in DOMAIN tasks : tasks[n].st = "queued"

\* C9: the Idempotency-Key of a mutating request differs from the key of
\* every earlier mutating request of the run.
C9_KeysPairwiseDistinct ==
    last.op \in {"create", "credit", "debit", "transfer"} => ~last.dupkey

\* C10: in sequential mode a task starts only after a pacing delay has
\* followed the end of the task before it.
C10_PacingBetweenTasks ==
    [][(Sequential /\ attempted' # attempted) => paced]_vars

\* C11: the phases are strictly ordered in both modes: no operation request
\* (nor a balance read) is issued before every wallet-creation task has been
\* started, completed and tallied; no ledger query is issued before every
\* operation task has been started, completed and tallied; and the
\* verification is entered only from the settle delay.
C11_PhasesStrictlyOrdered ==
    /\ [](/\ last.op \in {"credit", "debit", "transfer", "get_wallet"} =>
              /\ pc = "ops"
              /\ attempted["wallets"] = NumWallets
              /\ stats["wallets"].success + stats["wallets"].failed = NumWallets
          /\ last.op = "get_ledger" =>
              /\ pc = "verify"
              /\ attempted["credit"] + attempted["debit"] + attempted["transfer"] = NumOps
              /\ Tallied("credit") + Tallied("debit") + Tallied("transfer") = NumOps
              /\ \A n \in DOMAIN tasks : tasks[n].st \notin {"queued", "running", "done"})
    /\ [][(pc' = "verify" /\ pc # "verify") => pc = "settle2"]_vars
    /\ [][(pc' = "ops" /\ pc # "ops") => pc = "settle1"]_vars

\* a ledger query of a parallel run in which a creation and an operation failed
C11_LedgerQueryAfterParallelPhases ==
    /\ fast
    /\ last.op = "get_ledger"
    /\ stats["wallets"].failed >= 1
    /\ Tallied("credit") + Tallied("debit") + Tallied("transfer") = NumOps
    /\ stats["debit"].failed >= 1

\* C12: no request is retried: every creation task sends exactly one create
\* request and every operation task at most one mutating request, so the
\* requests of a kind never outnumber the tasks of that kind and the tasks
\* never outnumber the configured counts; a failed task is tallied as one
\* failed outcome and is never queued, reading or in flight again.
C12_NoRequestRetried ==
    /\ [](/\ issued["wallets"] = attempted["wallets"]
          /\ attempted["wallets"] <= NumWallets
          /\ \A k \in {"credit", "debit", "transfer"} : issued[k] <= attempted[k]
          /\ attempted["credit"] + attempted["debit"] + attempted["transfer"] <= NumOps
          /\ \A n \in DOMAIN tasks :
                (tasks[n].res = "fail" /\ tasks[n].st \in {"sleeping", "finished", "collected"})
                    => (tasks[n].fail = 1 /\ tasks[n].succ = 0))
    /\ [][\A n \in DOMAIN tasks :
            (pc' = pc /\ tasks[n].res = "fail") =>
                (tasks'[n].st \notin {"queued", "reading", "running"}
                 /\ tasks'[n].succ = 0)]_vars

\* a run completed with a failed create and a failed debit, with as many
\* requests as tasks
C12_FailuresNotRetried ==
    /\ pc = "done"
    /\ stats["wallets"].failed >= 1
    /\ stats["debit"].failed = NumOps
    /\ issued["wallets"] = NumWallets
    /\ issued["debit"] = NumOps

\* the population positions whose ledger was queried
Queried == {p \in DOMAIN ledger_log : ledger_log[p].queries >= 1}

\* C15: the verifier queries the ledger of exactly min(5, |population|)
\* wallets, each of them a member of the population, and no population entry
\* is queried twice.
C15_SampleOfMinFiveOrAll ==
    /\ last.op = "get_ledger" => last.wallet \in Range(created_wallets)
    /\ \A p \in DOMAIN ledger_log : ledger_log[p].queries <= 1
    /\ Queried \subseteq 1..Len(created_wallets)
    /\ pc = "verify" =>
          Cardinality(Queried) + Cardinality(sample)
              = (IF Len(created_wallets) < 5 THEN Len(created_wallets) ELSE 5)
    /\ pc = "done" =>
          Cardinality(Queried) = (IF Len(created_wallets) < 5 THEN Len(created_wallets) ELSE 5)

\* five of six wallets were queried
C15_FiveOfSixQueried ==
    /\ pc = "done"
    /\ Len(created_wallets) = 6
    /\ Cardinality(Queried) = 5

\* C16: a failed ledger query does not end the verification: it is reported
\* by one error line for its wallet, the loop goes on with the wallets left,
\* and the run ends with every sampled wallet queried exactly once and exit
\* code 0 whichever queries failed.
C16_LedgerFailureDoesNotAbort ==
    /\ [](/\ \A p \in DOMAIN ledger_log :
                /\ ledger_log[p].errors <= ledger_log[p].queries
                /\ ledger_log[p].queries <= 1
                /\ p \in sample => ledger_log[p].queries = 0
          /\ pc = "done" => (exit_code = 0 /\ sample = {}))
    /\ [][\A p \in sample : p \notin sample' => ledger_log'[p].queries = 1]_vars
    /\ [][\A p \in DOMAIN ledger_log :
            (p \in DOMAIN ledger_log' /\ ledger_log'[p].errors > ledger_log[p].errors) =>
                /\ ledger_log'[p].errors = ledger_log[p].errors + 1
                /\ last'.op = "get_ledger"
                /\ pc' = "verify"
                /\ exit_code' = exit_code
                /\ sample' = sample \ {p}]_vars

\* a run completed although the ledger query of every sampled wallet failed
C16_CompletedAfterFailedQueries ==
    /\ pc = "done"
    /\ exit_code = 0
    /\ Len(created_wallets) >= 2
    /\ \A p \in DOMAIN ledger_log : ledger_log[p].errors = 1

\* C17: the population only grows, by one appended wallet at a time and only
\* during the build phase; from the end of the build phase on it is never
\* changed, and its size then equals wallets.success.
C17_PopulationFrozenAfterBuild ==
    /\ [](pc # "create" => Len(created_wallets) = stats["wallets"].success)
    /\ [][pc # "create" => created_wallets' = created_wallets]_vars
    /\ [][created_wallets' # created_wallets =>
            /\ Len(created_wallets') = Len(created_wallets) + 1
            /\ SubSeq(created_wallets', 1, Len(created_wallets)) = created_wallets
            /\ stats'["wallets"].success = stats["wallets"].success + 1]_vars

\* an operation tallied on a population of two wallets built with one failure
C17_OperationsOnBuiltPopulation ==
    /\ pc = "ops"
    /\ Len(created_wallets) = 2
    /\ stats["wallets"].success = 2
    /\ stats["wallets"].failed = 1
    /\ stats["transfer"].success >= 1

C20_CaptureFailureSwallowed ==
    /\ [](/\ \A n \in DOMAIN tasks :
                tasks[n].cap = "lost" =>
                    /\ tasks[n].res = "fail"
                    /\ tasks[n].succ = 0
                    /\ tasks[n].fail = (IF tasks[n].st = "done" THEN 0 ELSE 1)
          /\ pc = "crashed" =>
                \E n \in DOMAIN tasks : tasks[n].res = "ok" /\ tasks[n].id = NoWallet
          /\ pc = "done" => exit_code = 0)
    /\ [][\A n \in DOMAIN tasks :
            (/\ n \in DOMAIN tasks'
             /\ (tasks[n].cap = "lost" \/ tasks'[n].cap = "lost")
             /\ tasks'[n].kind = tasks[n].kind
             /\ tasks'[n].fail = 1
             /\ tasks[n].fail = 0) =>
                /\ stats' = [stats EXCEPT ![tasks'[n].kind].failed = @ + 1]
                /\ pc' = pc
                /\ exit_code' = exit_code
                /\ created_wallets' = created_wallets]_vars

\* a sequential run completed after the capture of a failed create and of a
\* failed debit was lost
C20_CompletedAfterLostCaptures ==
    /\ script = "quick_load_test"
    /\ pc = "ops"
    /\ stats["wallets"].failed = 1
    /\ \E n \in DOMAIN tasks :
          /\ tasks[n].kind = "debit"
          /\ tasks[n].cap = "lost"
          /\ tasks[n].fail = 1
          /\ stats["debit"].failed >= 1

\* C19: a run with a non-empty population proceeds to completion: it never
\* ends otherwise than by the final report, with exit code 0, whatever items
\* failed.
C19_NonEmptyRunCompletes ==
    (Len(created_wallets) >= 1 /\ RunEnded) => (pc = "done" /\ exit_code = 0)

RECURSIVE sequential_successes(_, _)
sequential_successes(x, j) ==
    IF j > num_ops THEN 0
    ELSE LET kind == operation_drawn(lcg(x))
             abandoned == kind = "transfer" /\ Len(created_wallets) < 2
             used == IF abandoned THEN 1 ELSE IF kind = "transfer" THEN 5 ELSE 4
         IN  (IF abandoned \/ kind \in mock.rejects THEN 0 ELSE 1)
             + sequential_successes(draws(x, used), j + 1)

\* C14: with the same random seed and the same mock, a run ends with the
\* total of successful operations that the sequential run tallies, in
\* sequential mode and in parallel mode under every interleaving of the
\* workers.
C14_SuccessesEqualSequentialRun ==
    (rng.seeded /\ pc = "done") =>
        stats["credit"].success + stats["debit"].success + stats["transfer"].success
            = sequential_successes(rng.start, 1)

\* C21: a run ended by a user's interruption and a run ended by an unexpected
\* top-level fault differ in their message and in their exit code: whatever
\* an interrupted run printed and returned, a fault of the same script prints
\* another message and returns another exit code
C21_InterruptionAndFaultDistinct ==
    pc = "interrupted" =>
        \A f \in top_level("Exception") :
            /\ message # f.message
            /\ exit_code # f.exit_code

\* the tasks of the current phase whose result the main thread has consumed
Collected == {n \in DOMAIN tasks : tasks[n].st = "collected"}

PhaseTallied ==
    IF pc = "create" THEN Tallied("wallets")
    ELSE Tallied("credit") + Tallied("debit") + Tallied("transfer")

\* C22: in a --fast run the counters and the population are written only by
\* the main thread, in the step in which it consumes one completed future
\* after every task was submitted: that step moves exactly one counter by
\* one and appends at most the wallet of that result; the steps of the worker
\* threads leave the counters and the population alone; and whatever the
\* order of completion no update is lost: the counters of the phase add up to
\* the number of results consumed
C22_CountersWrittenByCollectorOnly ==
    /\ []((fast /\ pc \in {"create", "ops"}) => PhaseTallied = Cardinality(Collected))
    /\ [][(fast /\ (stats' # stats \/ created_wallets' # created_wallets)) =>
            /\ pc \in {"create", "ops"}
            /\ pc' = pc
            /\ i > Len(tasks)
            /\ \E n \in DOMAIN tasks :
                /\ tasks[n].st = "done"
                /\ tasks'[n].st = "collected"
                /\ \A m \in DOMAIN tasks \ {n} : tasks'[m] = tasks[m]
                /\ \E outcome \in {"success", "failed"} :
                        stats' = [stats EXCEPT ![tasks[n].kind][outcome] = @ + 1]
                /\ \/ created_wallets' = created_wallets
                   \/ /\ pc = "create"
                      /\ created_wallets' = Append(created_wallets, tasks[n].id)]_vars
    /\ [][(fast /\ \E n \in DOMAIN tasks :
                    /\ tasks[n].st \in {"queued", "running"}
                    /\ n \in DOMAIN tasks'
                    /\ tasks'[n] # tasks[n]) =>
            (stats' = stats /\ created_wallets' = created_wallets)]_vars

\* the second operation completed and was tallied while the first still runs
C22_TalliedOutOfSubmissionOrder ==
    /\ fast
    /\ pc = "ops"
    /\ tasks[1].st = "running"
    /\ tasks[2].st = "collected"
    /\ PhaseTallied = 1

\* C23: in load_test_wallets.py, when the balance read of a debit or transfer
\* task raises, the step that handles it sends no request, counts exactly one
\* failure of the task's kind and nothing else, and leaves the loop at the
\* next operation, which is still to be selected; a task that ended after
\* its read without a balance (no ceiling was computed) never sent a debit or
\* transfer request; a read that returns leads to the request or to the skip
C23_FailedReadCountsOneFailure ==
    /\ []((script = "load_test_wallets" /\ pc = "ops") =>
            \A n \in DOMAIN tasks :
                (tasks[n].st = "finished" /\ tasks[n].read /\ tasks[n].ceiling = NoValue) =>
                    /\ tasks[n].kind \in {"debit", "transfer"}
                    /\ ~tasks[n].sent
                    /\ tasks[n].fail = 1
                    /\ tasks[n].succ = 0)
    /\ [][(/\ script = "load_test_wallets"
           /\ pc = "ops"
           /\ i \in DOMAIN tasks
           /\ tasks[i].st = "reading"
           /\ tasks'[i].st = "finished") =>
            /\ last' = NoRequest
            /\ issued' = issued
            /\ stats' = [stats EXCEPT ![tasks[i].kind]["failed"] = @ + 1]
            /\ created_wallets' = created_wallets
            /\ pc' = "ops"
            /\ exit_code' = NoValue
            /\ i' = i + 1
            /\ (i' <= num_ops => tasks'[i'].st = "pending")]_vars
    /\ [][(/\ script = "load_test_wallets"
           /\ pc = "ops"
           /\ i \in DOMAIN tasks
           /\ tasks[i].st = "reading"
           /\ tasks' # tasks) =>
            \/ tasks'[i].st = "finished"
            \/ /\ tasks'[i].st \in {"running", "sleeping"}
               /\ tasks'[i].ceiling # NoValue]_vars

\* the balance read of the first operation, a debit, has failed: one debit
\* failure is counted, no debit was requested, the second operation is next
C23_DebitReadFailed ==
    /\ script = "load_test_wallets"
    /\ pc = "ops"
    /\ i = 2
    /\ tasks[1].st = "finished"
    /\ tasks[1].kind = "debit"
    /\ tasks[1].read
    /\ tasks[1].ceiling = NoValue
    /\ ~tasks[1].sent
    /\ stats["debit"].failed = 1
    /\ issued["debit"] = 0
    /\ tasks[2].st = "pending"

====
